---- MODULE Spec2Model ----
(***************************************************************************)
(* dsorm (D.S.O: Darned Simple ORM), src/dsorm/dsorm.py.                   *)
(*                                                                         *)
(* Four specifications over one set of variables:                          *)
(*   SpecRender   the pure rendering functions (Statement.sql, Where.sql,  *)
(*                ds_quote, Table.insert) applied to bounded inputs;       *)
(*   SpecSchema   construction of schema objects, the registration         *)
(*                directory Database.information_schema, Database.table;   *)
(*   SpecPool     Database / connection_pool / connect / c / close;        *)
(*   SpecThreads  RegisteredObject.__post_init__ run by several threads,   *)
(*                one step per access to the shared directory.             *)
(*                                                                         *)
(* A text is a sequence of string pieces whose concatenation is the Python *)
(* string; Flat(text) is that string.  A Python dict is the sequence of    *)
(* its <<key, value>> items in insertion order, keys distinct.  An object  *)
(* reference is the object's index in the heap `objects`; 0 is None.       *)
(***************************************************************************)
EXTENDS Integers, Sequences, FiniteSets, TLC

VARIABLES
    last,                 \* the last call made: its name, arguments and outcome
    objects,              \* heap of schema objects, in construction order
    information_schema,   \* Database.information_schema: kind -> (name -> object)
    connection_pool,      \* Database.connection_pool: path -> connection
    connections,          \* heap of sqlite3 connections: TRUE while open
    databases,            \* heap of Database instances: [db_path, c]
    default_db,           \* Database._default_db
    threads,              \* per thread: position in __post_init__ and its locals
    kind_tables,          \* heap of the per-kind dicts held by the directory
    directory             \* the directory as the threads see it: kind -> per-kind dict

vars == <<last, objects, information_schema, connection_pool, connections,
          databases, default_db, threads, kind_tables, directory>>

\* ---------------------------------------------------------------- bounds

MaxClauses == 3
MaxEntries == 2
MaxObjects == 3
MaxConnections == 2
MaxDatabases == 2
NumThreads == 2
MaxConstructions == 3

\* ------------------------------------------------------- python helpers

None == "None"

EmptyDict == <<>>

Range(s) == {s[i] : i \in DOMAIN s}

Injective(s) == \A i, j \in DOMAIN s : s[i] = s[j] => i = j

\* Sequences over S of length at most n without repeated elements.
InjectiveSeqs(S, n) ==
    UNION {{s \in [1..k -> S] : Injective(s)} : k \in 0..n}

\* The Python dict of the keys ks, in this order, with the values vs.
Dict(ks, vs) == [i \in DOMAIN ks |-> <<ks[i], vs[i]>>]

Keys(d) == [i \in DOMAIN d |-> d[i][1]]

RECURSIVE Flat(_)
Flat(text) == IF text = <<>> THEN "" ELSE Head(text) \o Flat(Tail(text))

\* str.join: the texts of `list`, `seperator` between neighbours.
RECURSIVE Join(_, _)
Join(seperator, list) ==
    IF list = <<>> THEN <<>>
    ELSE IF Len(list) = 1 THEN Head(list)
    ELSE Head(list) \o <<seperator>> \o Join(seperator, Tail(list))

\* A fragment (SQLFragment): a str, or a DSObject by its reference.
StrFragment(s) == [obj |-> 0, s |-> s]
ObjFragment(id) == [obj |-> id, s |-> ""]

\* Fragments: one fragment, or an iterable of them.
One(fragment) == [iterable |-> FALSE, items |-> <<fragment>>]
Many(fragments) == [iterable |-> TRUE, items |-> fragments]
\* None where Fragments are expected.
NoFragments == [iterable |-> FALSE, items |-> <<>>]

\* An optional mapping: None, or a dict.
NoMapping == [none |-> TRUE, items |-> <<>>]
Mapping(dict) == [none |-> FALSE, items |-> dict]

\* -------------------------------------------- SECTION 1: clause orders

\* An Enum class is its members [cls, name, value] in definition order.
Member(cls, name, value) == [cls |-> cls, name |-> name, value |-> value]

CreateTableType ==
    << Member("CreateTableType", "CREATE", 1),
       Member("CreateTableType", "COLUMN", 2),
       Member("CreateTableType", "CONSTRAINT", 3) >>

SelectType ==
    << Member("SelectType", "CTE", 1),
       Member("SelectType", "SELECT", 2),
       Member("SelectType", "FROM", 4),
       Member("SelectType", "JOIN", 6),
       Member("SelectType", "WHERE", 7),
       Member("SelectType", "GROUP", 9),
       Member("SelectType", "HAVING", 10),
       Member("SelectType", "ORDER", 11),
       Member("SelectType", "LIMIT", 12),
       Member("SelectType", "OFFSET", 13) >>

DeleteType ==
    << Member("DeleteType", "FROM", 1),
       Member("DeleteType", "WHERE", 2) >>

InsertType ==
    << Member("InsertType", "CTE", 1),
       Member("InsertType", "INSERT", 2),
       Member("InsertType", "COLUMNS", 3),
       Member("InsertType", "FROM", 4),
       Member("InsertType", "VALUES", 5) >>

UpdateType ==
    << Member("UpdateType", "CTE", 1),
       Member("UpdateType", "UPDATE", 2),
       Member("UpdateType", "SET", 3),
       Member("UpdateType", "WHERE", 4) >>

StatementTypes == {CreateTableType, SelectType, DeleteType, InsertType, UpdateType}

\* Iterating an Enum class: its members in definition order, a member whose
\* value repeats an earlier one (an alias) left out.
EnumIter(enum) ==
    SelectSeq([i \in DOMAIN enum |-> [m |-> enum[i], i |-> i]],
              LAMBDA e : \A j \in 1..(e.i - 1) : enum[j].value # e.m.value)

\* ------------------------------------------- SECTION 3: utility functions

LINE_AND_SEPERATOR == "\n\tAND "

\* Literal values by their exact Python type.
StrValue(s) == [type |-> "str", s |-> s, i |-> 0]
IntValue(i) == [type |-> "int", s |-> "", i |-> i]
FloatValue(repr) == [type |-> "float", s |-> repr, i |-> 0]
BoolValue(b) == [type |-> "bool", s |-> "", i |-> IF b THEN 1 ELSE 0]
NoneValue == [type |-> "NoneType", s |-> "", i |-> 0]
ListValue == [type |-> "list", s |-> "", i |-> 0]

\* str(o) of a literal value.
PyStr(o) ==
    CASE o.type = "str" -> o.s
      [] o.type = "int" -> ToString(o.i)
      [] o.type = "float" -> o.s
      [] o.type = "bool" -> IF o.i = 1 THEN "True" ELSE "False"
      [] o.type = "NoneType" -> "None"
      [] OTHER -> "[]"

Returned(value) == [raised |-> "", value |-> value]
Raised(exception) == [raised |-> exception, value |-> <<>>]

\* ds_quote: a lookup of the cast by the exact type; a miss is a KeyError.
ds_quote(o) ==
    IF o.type = "str" THEN Returned(<<"'" \o o.s \o "'">>)
    ELSE IF o.type \in {"int", "float"} THEN Returned(<<PyStr(o)>>)
    ELSE Raised("KeyError")

\* ------------------------------------------------ schema objects (heap)

Column(name, sqltype, unique, nullable, pkey) ==
    [kind |-> "Column", name |-> name, sqltype |-> sqltype, unique |-> unique,
     nullable |-> nullable, pkey |-> pkey, table |-> 0]

Table(column, name) ==
    [kind |-> "Table", column |-> column, name |-> name, constraints |-> <<>>,
     schema |-> "Main"]

ForeignKey(column, reference_table, reference_column) ==
    [kind |-> "ForeignKey", column |-> column,
     reference_table |-> reference_table, reference_column |-> reference_column]

Pragma(pragma, name) == [kind |-> "Pragma", pragma |-> pragma, name |-> name]

IsDSObject(o) == o.obj # 0

RECURSIVE ObjectName(_)

\* Column.identifier, Table.identifier.
Identifier(id) ==
    LET self == objects[id] IN
    CASE self.kind = "Column" ->
           IF self.table # 0 /\ objects[self.table].name \notin {None, ""}
           THEN objects[self.table].name \o "." \o self.name
           ELSE self.name
      [] self.kind = "Table" ->
           IF self.schema # "" THEN self.schema \o "." \o self.name ELSE self.name

ds_name(o) == IF IsDSObject(o) THEN ObjectName(o.obj) ELSE o.s

ds_qname(o) == IF IsDSObject(o) THEN Identifier(o.obj) ELSE o.s

\* f"{o}": str(o), which for a Column is its __repr__, the identifier.
Format(o) == IF IsDSObject(o) THEN Identifier(o.obj) ELSE o.s

\* lambda x: f":{x}", the renderer Table.insert hands to joinmap.
Placeholder(x) == ":" \o Format(x)

\* f(item) for the renderers joinmap is called with, f by its name.
Apply(f, item) ==
    CASE f = "ds_name" -> ds_name(item)
      [] f = "ds_qname" -> ds_qname(item)
      [] f = "placeholder" -> Placeholder(item)

\* joinmap(o, f, seperator): f over the items of an iterable joined by the
\* seperator, or f of the one item.
joinmap(o, f, seperator) ==
    IF o.iterable
    THEN Join(seperator, [i \in DOMAIN o.items |-> <<Apply(f, o.items[i])>>])
    ELSE <<Apply(f, o.items[1])>>

\* ForeignKey.name, derived from the local column(s).
ForeignKeyName(column) == Flat(<<"Fkey on ">> \o joinmap(column, "ds_name", ", "))

\* o.name: a field, except ForeignKey.name.
ObjectName(id) ==
    IF objects[id].kind = "ForeignKey" THEN ForeignKeyName(objects[id].column)
    ELSE objects[id].name

Refs(ids) == Many([i \in DOMAIN ids |-> ObjFragment(ids[i])])

\* Column.sql
ColumnSql(id) ==
    LET self == objects[id]
        blocks == <<self.name, self.sqltype>>
                  \o (IF ~self.nullable THEN <<"NOT NULL">> ELSE <<>>)
                  \o (IF self.unique THEN <<"UNIQUE">> ELSE <<>>)
                  \o (IF self.pkey THEN <<"PRIMARY KEY">> ELSE <<>>)
    IN  Join(" ", [i \in DOMAIN blocks |-> <<blocks[i]>>])

\* ForeignKey.sql
ForeignKeySql(id) ==
    LET self == objects[id] IN
    <<"FOREIGN KEY (">> \o joinmap(self.column, "ds_name", ", ")
        \o <<") REFERENCES ", ObjectName(self.reference_table), "(">>
        \o joinmap(Refs(self.reference_column), "ds_name", ", ") \o <<")">>

\* Pragma.sql
PragmaSql(id) ==
    LET self == objects[id] IN
    Join(";\n", [i \in DOMAIN self.pragma |->
                    <<"PRAGMA ", self.pragma[i][1], "=", self.pragma[i][2]>>])

\* ds_sql of a Column, ForeignKey or Pragma, or of a str.
LeafSql(o) ==
    IF IsDSObject(o)
    THEN CASE objects[o.obj].kind = "Column" -> ColumnSql(o.obj)
           [] objects[o.obj].kind = "ForeignKey" -> ForeignKeySql(o.obj)
           [] objects[o.obj].kind = "Pragma" -> PragmaSql(o.obj)
    ELSE <<o.s>>

\* Table.sql
TableSql(id) ==
    LET self == objects[id]
        parts == self.column \o self.constraints
    IN  <<"CREATE TABLE IF NOT EXISTS ", self.name, " (\n ">>
        \o Join(", ", [i \in DOMAIN parts |-> LeafSql(ObjFragment(parts[i]))])
        \o <<")">>

\* ds_sql: the object's own sql(), a str as it is.
ds_sql(o) ==
    IF IsDSObject(o) /\ objects[o.obj].kind = "Table" THEN TableSql(o.obj)
    ELSE LeafSql(o)

\* ------------------------------------------------------------- Where

ComparisonOperator == {"=", ">", "<", "!=", "<>", ">=", "<="}

\* Where.Comparison.sql; the quoting may raise.
ComparisonSql(column, target, operator) ==
    LET quoted == ds_quote(target) IN
    IF quoted.raised # "" THEN quoted
    ELSE Returned(<<Format(column), " ", operator, " ">> \o quoted.value)

\* Where.sql on the mapping `where` (None, or a dict from column to value).
WhereSql(where) ==
    IF where.none \/ where.items = EmptyDict THEN Returned(<<>>)
    ELSE LET strs == SelectSeq(where.items, LAMBDA item : item[2].type = "str")
             clause_list == [i \in DOMAIN strs |->
                                ComparisonSql(strs[i][1], strs[i][2], "=")]
         IN  IF \E i \in DOMAIN clause_list : clause_list[i].raised # ""
             THEN Raised("KeyError")
             ELSE Returned(<<"WHERE ">>
                     \o Join(LINE_AND_SEPERATOR,
                             [i \in DOMAIN clause_list |-> clause_list[i].value]))

\* ds_where: a Where as it is, a mapping wrapped in one.  Here a Where is
\* its mapping.
ds_where(where) == where

\* --------------------------------------------------------- Statement

\* Statement.sql as if it walked the mapping instead of the enumeration.
StatementSqlInsertionOrder(statement_type, components) ==
    Join("\n", [i \in DOMAIN components |-> ds_sql(components[i][2])])

\* Statement.sql of (statement_type, components).
StatementSql(statement_type, components) ==
    LET clauses == EnumIter(statement_type)
        present == SelectSeq(clauses,
                       LAMBDA e : \E i \in DOMAIN components : components[i][1] = e.m)
        content(m) == components[CHOOSE i \in DOMAIN components :
                                    components[i][1] = m][2]
    IN  Join("\n", [i \in DOMAIN present |-> ds_sql(content(present[i].m))])

\* ------------------------------------------------------------- Table

\* Table.insert as if it wrote the quoted values into the text.
TableInsertInlined(name, data, replace) ==
    << <<IF replace THEN "REPLACE" ELSE "INSERT", " INTO ", name, " (">>
         \o joinmap(Many(Keys(data)), "ds_name", ", ") \o <<") VALUES(">>
         \o Join(", ", [i \in DOMAIN data |-> ds_quote(data[i][2]).value])
         \o <<");">>,
       data >>

\* Table.insert(data, replace) of the table named `name`: <<text, data>>.
TableInsert(name, data, replace) ==
    LET k == Many(Keys(data)) IN
    << <<IF replace THEN "REPLACE" ELSE "INSERT", " INTO ", name, " (">>
         \o joinmap(k, "ds_name", ", ") \o <<") VALUES(">>
         \o joinmap(k, "placeholder", ", ") \o <<");">>,
       data >>

\* ------------------------------------------- registration directory

\* d[key] = value on a dict held as a function.
SetItem(d, key, value) == (key :> value) @@ d

\* The registration as if it kept an entry already there (dict.setdefault).
RegisterIfAbsent(schema, kind, name, id) ==
    LET created == IF kind \in DOMAIN schema THEN schema
                   ELSE SetItem(schema, kind, <<>>)
    IN  IF name \in DOMAIN created[kind] THEN created
        ELSE [created EXCEPT ![kind] = SetItem(@, name, id)]

\* information_schema[kind][name] = self, information_schema a
\* defaultdict(dict): a missing per-kind dict is created by the read.
Register(schema, kind, name, id) ==
    LET created == IF kind \in DOMAIN schema THEN schema
                   ELSE SetItem(schema, kind, <<>>)
    IN  [created EXCEPT ![kind] = SetItem(@, name, id)]

\* Table.__post_init__: c.table = self for every c of self.column.
AttachColumns(heap, column, table) ==
    [i \in DOMAIN heap |->
        IF i \in Range(column) THEN [heap[i] EXCEPT !.table = table] ELSE heap[i]]

\* Table.pkey
Pkey(id) == SelectSeq(objects[id].column, LAMBDA c : objects[c].pkey)

\* len() of a `column` argument: its items, 1 for a single fragment.
Count(o) == Len(o.items)

Call(op, args, result) == [op |-> op, args |-> args, result |-> result]

Idle == Call("", <<>>, Returned(<<>>))

ColumnNames == {"id", "name"}
TableNames == {"users", "posts"}
PragmaNames == {"MAIN"}

IdsOf(kind) == {i \in DOMAIN objects : objects[i].kind = kind}

ColumnLists == InjectiveSeqs(IdsOf("Column"), 2)

\* What a caller may pass for a foreign key's local column(s).
ColumnArgs ==
    {One(ObjFragment(c)) : c \in IdsOf("Column")}
        \cup {Refs(cs) : cs \in ColumnLists}

SchemaVarsUnchanged == UNCHANGED <<objects, information_schema>>
PoolVarsUnchanged ==
    UNCHANGED <<connection_pool, connections, databases, default_db>>
ThreadVarsUnchanged == UNCHANGED <<threads, kind_tables, directory>>

\* Column(name=name, pkey=pkey)
NewColumn(name, pkey) ==
    /\ Len(objects) < MaxObjects
    /\ objects' = Append(objects, Column(name, "", FALSE, TRUE, pkey))
    /\ information_schema' =
           Register(information_schema, "Column", name, Len(objects'))
    /\ last' = Call("Column", <<name, pkey>>, Returned(Len(objects')))
    /\ PoolVarsUnchanged /\ ThreadVarsUnchanged

\* Pragma(pragma, name=name)
NewPragma(name) ==
    /\ Len(objects) < MaxObjects
    /\ objects' = Append(objects, Pragma(<< <<"foreign_keys", "1">> >>, name))
    /\ information_schema' =
           Register(information_schema, "Pragma", name, Len(objects'))
    /\ last' = Call("Pragma", <<name>>, Returned(Len(objects')))
    /\ PoolVarsUnchanged /\ ThreadVarsUnchanged

\* Table(column=column, name=name)
NewTable(column, name) ==
    /\ Len(objects) < MaxObjects
    /\ objects' = Append(AttachColumns(objects, column, Len(objects) + 1),
                         Table(column, name))
    /\ information_schema' =
           Register(information_schema, "Table", name, Len(objects'))
    /\ last' = Call("Table", <<column, name>>, Returned(Len(objects')))
    /\ PoolVarsUnchanged /\ ThreadVarsUnchanged

\* ForeignKey(column=column, reference_table=..., reference_column=...)
NewForeignKey(column, reference_table, reference_column) ==
    /\ Len(objects) < MaxObjects
    /\ objects' = Append(objects,
                         ForeignKey(column, reference_table, reference_column))
    /\ information_schema' =
           Register(information_schema, "ForeignKey", ForeignKeyName(column),
                    Len(objects'))
    /\ last' = Call("ForeignKey", <<column, reference_table, reference_column>>,
                    Returned(Len(objects')))
    /\ PoolVarsUnchanged /\ ThreadVarsUnchanged

\* Table.fkey(on_column) of table t; on_column = None takes the primary key.
TableFkey(t, on_column) ==
    LET primary == Pkey(t)
        column == IF on_column = NoFragments THEN Refs(primary) ELSE on_column
    IN  /\ Len(objects) < MaxObjects
        /\ objects' = Append(objects, ForeignKey(column, t, primary))
        /\ information_schema' =
               Register(information_schema, "ForeignKey",
                        ForeignKeyName(column), Len(objects'))
        /\ last' = Call("Table.fkey", <<t, on_column>>, Returned(Len(objects')))
        /\ PoolVarsUnchanged /\ ThreadVarsUnchanged

\* Database.table(o), as query, create and delete call it.
DatabaseTable(o) ==
    LET read == IF "Table" \in DOMAIN information_schema THEN information_schema
                ELSE SetItem(information_schema, "Table", <<>>)
    IN  /\ IF IsDSObject(o) /\ objects[o.obj].kind = "Table"
           THEN /\ last' = Call("Database.table", <<o, information_schema>>,
                                Returned(o.obj))
                /\ UNCHANGED information_schema
           ELSE /\ information_schema' = read
                /\ last' = Call("Database.table", <<o, information_schema>>,
                                IF o.s \in DOMAIN read["Table"]
                                THEN Returned(read["Table"][o.s])
                                ELSE Raised("KeyError"))
        /\ UNCHANGED objects
        /\ PoolVarsUnchanged /\ ThreadVarsUnchanged

\* ------------------------------------------------ rendering, as calls

\* The schema of the scenario: users(id INTEGER PRIMARY KEY, name TEXT NOT NULL).
SampleObjects ==
    AttachColumns(<< Column("id", "INTEGER", FALSE, TRUE, TRUE),
                     Column("name", "TEXT", FALSE, FALSE, FALSE),
                     Table(<<1, 2>>, "users") >>, <<1, 2>>, 3)

SampleSchema ==
    Register(Register(Register(<<>>, "Column", "id", 1), "Column", "name", 2),
             "Table", "users", 3)

Contents == {StrFragment("sql"), ObjFragment(2)}

WhereKeys == {StrFragment("id"), StrFragment("name"), StrFragment("age")}

SupportedValues == {StrValue("alice"), IntValue(1), FloatValue("1.5")}

UnsupportedValues == {BoolValue(TRUE), BoolValue(FALSE), NoneValue, ListValue}

DataKeys == {StrFragment("id"), StrFragment("name"), StrFragment("age")}

CallStatementSql(statement_type, components) ==
    /\ last = Idle
    /\ last' = Call("Statement.sql", <<statement_type, components>>,
                    Returned(StatementSql(statement_type, components)))
    /\ SchemaVarsUnchanged /\ PoolVarsUnchanged /\ ThreadVarsUnchanged

CallWhereSql(where) ==
    /\ last = Idle
    /\ last' = Call("Where.sql", <<where>>, WhereSql(ds_where(where)))
    /\ SchemaVarsUnchanged /\ PoolVarsUnchanged /\ ThreadVarsUnchanged

CallDsQuote(o) ==
    /\ last = Idle
    /\ last' = Call("ds_quote", <<o>>, ds_quote(o))
    /\ SchemaVarsUnchanged /\ PoolVarsUnchanged /\ ThreadVarsUnchanged

CallTableInsert(t, data, replace) ==
    /\ last = Idle
    /\ last' = Call("Table.insert", <<t, data, replace>>,
                    Returned(TableInsert(objects[t].name, data, replace)))
    /\ SchemaVarsUnchanged /\ PoolVarsUnchanged /\ ThreadVarsUnchanged

NoPool ==
    /\ connection_pool = <<>>
    /\ connections = <<>>
    /\ databases = <<>>
    /\ default_db = None

NoThreads ==
    /\ threads = <<>>
    /\ kind_tables = <<>>
    /\ directory = <<>>

InitRender ==
    /\ last = Idle
    /\ objects = SampleObjects
    /\ information_schema = SampleSchema
    /\ NoPool /\ NoThreads

NextRender ==
    \/ /\ last = Idle
       /\ \E statement_type \in StatementTypes :
            \E ks \in InjectiveSeqs(Range(statement_type), MaxClauses) :
               \E vs \in [DOMAIN ks -> Contents] :
                  CallStatementSql(statement_type, Dict(ks, vs))
    \/ CallWhereSql(NoMapping)
    \/ /\ last = Idle
       /\ \E ks \in InjectiveSeqs(WhereKeys, MaxEntries) :
            \E vs \in [DOMAIN ks -> SupportedValues \cup {BoolValue(TRUE)}] :
               CallWhereSql(Mapping(Dict(ks, vs)))
    \/ \E o \in SupportedValues \cup UnsupportedValues : CallDsQuote(o)
    \/ /\ last = Idle
       /\ \E ks \in InjectiveSeqs(DataKeys, MaxEntries) :
            \E vs \in [DOMAIN ks -> SupportedValues], replace \in BOOLEAN :
               CallTableInsert(3, Dict(ks, vs), replace)

SpecRender == InitRender /\ [][NextRender]_vars

\* ------------------------------------------------ schema construction

InitSchema ==
    /\ last = Idle
    /\ objects = <<>>
    /\ information_schema = <<>>
    /\ NoPool /\ NoThreads

NextSchema ==
    \/ \E name \in ColumnNames, pkey \in BOOLEAN : NewColumn(name, pkey)
    \/ \E name \in PragmaNames : NewPragma(name)
    \/ \E column \in ColumnLists, name \in TableNames : NewTable(column, name)
    \/ \E column \in ColumnArgs, t \in IdsOf("Table"),
          reference_column \in ColumnLists :
         NewForeignKey(column, t, reference_column)
    \/ \E t \in IdsOf("Table") : TableFkey(t, NoFragments)
    \/ \E t \in IdsOf("Table"), on_column \in ColumnArgs : TableFkey(t, on_column)
    \/ \E t \in IdsOf("Table") : DatabaseTable(ObjFragment(t))
    \/ \E name \in TableNames : DatabaseTable(StrFragment(name))

SpecSchema == InitSchema /\ [][NextSchema]_vars

\* ============================================================ claims

\* str.split(seperator) on the pieces of a text.
RECURSIVE Split(_, _)
Split(text, seperator) ==
    IF \A i \in DOMAIN text : text[i] # seperator THEN <<text>>
    ELSE LET i == CHOOSE i \in DOMAIN text :
                      /\ text[i] = seperator
                      /\ \A j \in 1..(i - 1) : text[j] # seperator
         IN  <<SubSeq(text, 1, i - 1)>>
                 \o Split(SubSeq(text, i + 1, Len(text)), seperator)

\* The lines of a text; the empty text has none.
Lines(text) == IF text = <<>> THEN <<>> ELSE Split(text, "\n")

DeclaredIndex(statement_type, m) ==
    CHOOSE i \in DOMAIN statement_type : statement_type[i] = m

\* The place of item j of the mapping among the mapping's clauses, by the
\* declared order of their slots.
Rank(statement_type, components, j) ==
    1 + Cardinality({k \in DOMAIN components :
          DeclaredIndex(statement_type, components[k][1])
              < DeclaredIndex(statement_type, components[j][1])})

\* C1: Statement.sql emits exactly the clauses of the mapping, each once, in
\* the declared order of the statement kind whatever the insertion order,
\* one per line; the empty mapping renders to the empty text; nothing raises.
C1_StatementSqlDeclaredOrder ==
    last.op = "Statement.sql" =>
        LET statement_type == last.args[1]
            components == last.args[2]
            lines == Lines(last.result.value)
        IN  /\ last.result.raised = ""
            /\ Len(lines) = Len(components)
            /\ \A j \in DOMAIN components :
                 lines[Rank(statement_type, components, j)]
                     = ds_sql(components[j][2])
            /\ components = EmptyDict => Flat(last.result.value) = ""

\* C1's case: two or more clauses put into the mapping against the declared
\* order, and rendered.
C1_Witness ==
    /\ last.op = "Statement.sql"
    /\ Len(last.args[2]) >= 2
    /\ DeclaredIndex(last.args[1], last.args[2][1][1])
           > DeclaredIndex(last.args[1], last.args[2][2][1])
    /\ Len(Lines(last.result.value)) >= 2

CountPieces(text, S) == Cardinality({i \in DOMAIN text : text[i] \in S})

\* C2: Where.sql on a mapping of N entries of supported literal kinds renders
\* "WHERE " and exactly N comparisons conjoined by AND; for N = 0 (None or the
\* empty mapping) the empty string; never a bare WHERE.
C2_WhereRendersEveryEntry ==
    (/\ last.op = "Where.sql"
     /\ \A i \in DOMAIN last.args[1].items :
          last.args[1].items[i][2] \in SupportedValues) =>
        LET n == Len(last.args[1].items)
            text == last.result.value
        IN  /\ last.result.raised = ""
            /\ text # <<"WHERE ">>
            /\ IF n = 0 THEN text = <<>>
               ELSE /\ Head(text) = "WHERE "
                    /\ CountPieces(text, ComparisonOperator) = n
                    /\ CountPieces(text, {LINE_AND_SEPERATOR}) = n - 1

\* C3: ds_quote wraps a text in single quotes, gives an integer or a float as
\* its unquoted text, and fails with UnsupportedLiteralKind on any other
\* kind, never returning its stringified text.
C3_QuoteOrUnsupportedLiteralKind ==
    last.op = "ds_quote" =>
        LET o == last.args[1] IN
        CASE o.type = "str" ->
               last.result = Returned(<<"'" \o o.s \o "'">>)
          [] o.type \in {"int", "float"} -> last.result = Returned(<<PyStr(o)>>)
          [] OTHER -> last.result.raised = "UnsupportedLiteralKind"

\* C8: Table.insert(data, replace) returns the text
\* INSERT|REPLACE INTO <table> (<keys>) VALUES(<placeholders>); whose
\* placeholders are ":" + key for each key of data in the order of the key
\* list, paired with data itself; no value of data is in the text.
C8_InsertBindsPlaceholders ==
    last.op = "Table.insert" =>
        LET data == last.args[2]
            replace == last.args[3]
            text == last.result.value[1]
            n == Len(data)
            width == IF n = 0 THEN 0 ELSE 2 * n - 1
        IN  /\ Len(text) = 6 + 2 * width
            /\ text[1] = (IF replace THEN "REPLACE" ELSE "INSERT")
            /\ text[2] = " INTO "
            /\ text[3] = objects[last.args[1]].name
            /\ text[4] = " ("
            /\ text[5 + width] = ") VALUES("
            /\ text[6 + 2 * width] = ");"
            /\ \A i \in 1..n :
                 /\ text[4 + 2 * i - 1] = data[i][1].s
                 /\ text[5 + width + 2 * i - 1] = ":" \o data[i][1].s
            /\ \A i \in 1..(n - 1) :
                 /\ text[4 + 2 * i] = ", "
                 /\ text[5 + width + 2 * i] = ", "
            /\ last.result.value[2] = data
            /\ \A i \in 1..n, j \in DOMAIN text :
                 /\ text[j] # PyStr(data[i][2])
                 /\ text[j] # Flat(ds_quote(data[i][2]).value)

\* C8's case: a REPLACE of two keys.
C8_Witness ==
    /\ last.op = "Table.insert"
    /\ last.args[3]
    /\ Len(last.args[2]) = 2
    /\ Len(last.result.value[1]) = 12

Latest(kind, name) ==
    CHOOSE i \in DOMAIN objects :
        /\ objects[i].kind = kind /\ ObjectName(i) = name
        /\ \A j \in DOMAIN objects :
             (objects[j].kind = kind /\ ObjectName(j) = name) => j <= i

\* C5: after any constructions of schema objects, the directory entry of
\* every (kind name, object name) ever constructed is the object constructed
\* last under that key (an insertion per construction, a later one
\* overwriting, none removed), and the directory holds nothing else.
C5_DirectoryHoldsLatest ==
    /\ \A i \in DOMAIN objects :
         /\ objects[i].kind \in DOMAIN information_schema
         /\ ObjectName(i) \in DOMAIN information_schema[objects[i].kind]
         /\ information_schema[objects[i].kind][ObjectName(i)]
                = Latest(objects[i].kind, ObjectName(i))
    /\ \A kind \in DOMAIN information_schema :
         \A name \in DOMAIN information_schema[kind] :
            LET id == information_schema[kind][name] IN
            /\ id \in DOMAIN objects
            /\ objects[id].kind = kind
            /\ ObjectName(id) = name

\* C5's case: a second object constructed under the key of an earlier one
\* that is still alive in the heap, with objects of other kinds around.
C5_Witness ==
    /\ \E i, j \in DOMAIN objects :
         /\ i < j
         /\ objects[i].kind = objects[j].kind
         /\ ObjectName(i) = ObjectName(j)
         /\ information_schema[objects[j].kind][ObjectName(j)] = j
    /\ Cardinality(DOMAIN information_schema) >= 2

\* C4: Database.table(o) returns o when o is a Table; for a plain name it
\* returns the Table registered under the name, and fails with UnknownTable
\* when none is, leaving the directory unchanged.
C4_TableResolvedOrUnknownTable ==
    last.op = "Database.table" =>
        LET o == last.args[1]
            before == last.args[2]
            registered == /\ "Table" \in DOMAIN before
                          /\ o.s \in DOMAIN before["Table"]
        IN  IF IsDSObject(o) THEN last.result = Returned(o.obj)
            ELSE IF registered THEN last.result = Returned(before["Table"][o.s])
            ELSE /\ last.result.raised = "UnknownTable"
                 /\ information_schema = before

\* C6: every ForeignKey that exists, constructed directly or by Table.fkey,
\* has as many local columns as referenced columns (a mismatched attempt
\* fails with MalformedForeignKey and leaves no ForeignKey).
C6_ForeignKeyColumnCountsMatch ==
    \A i \in DOMAIN objects :
        objects[i].kind = "ForeignKey" =>
            Count(objects[i].column) = Len(objects[i].reference_column)

\* C7: once a Table is constructed, whatever is constructed afterwards, every
\* column of its column sequence has the table as its back-reference and
\* table name + "." + column name as its qualified identifier.
C7_ColumnsBelongToTheirTable ==
    \A t \in DOMAIN objects :
        objects[t].kind = "Table" =>
            \A k \in DOMAIN objects[t].column :
                LET c == objects[t].column[k] IN
                /\ objects[c].table = t
                /\ Identifier(c) = objects[t].name \o "." \o objects[c].name

\* ------------------------------------------------ SECTION 5: Database

Paths == {"a.db", "b.db"}

\* connection_pool.get(path): 0 for None.
PoolGet(path) == IF path \in DOMAIN connection_pool THEN connection_pool[path] ELSE 0

\* del d[key]
DelItem(d, key) == [k \in DOMAIN d \ {key} |-> d[k]]

\* The path connect() works with: db_path, default_db when db_path is None.
ConnectPath(d) ==
    IF databases[d].db_path = None /\ default_db # None THEN default_db
    ELSE databases[d].db_path

Outcome(dbs, pool, conns, raised, opened) ==
    [databases |-> dbs, connection_pool |-> pool, connections |-> conns,
     raised |-> raised, opened |-> opened]

\* Database.connect of instance d, the hooks being do_nothing: the state it
\* leaves, what it raised, whether it opened a connection.
Connect(d) ==
    LET path == ConnectPath(d)
        pooled == PoolGet(path)
        opened == Len(connections) + 1
        with(c) == [databases EXCEPT ![d] = [db_path |-> path, c |-> c]]
    IN  IF pooled # 0
        THEN Outcome(with(pooled), connection_pool, connections, "", FALSE)
        ELSE IF path = None
        THEN Outcome(with(0), connection_pool, connections, "TypeError", FALSE)
        ELSE Outcome(with(opened), SetItem(connection_pool, path, opened),
                     Append(connections, TRUE), "", TRUE)

\* Database.c of instance d: connects when d holds no connection.
GetC(d) ==
    IF databases[d].c = 0 THEN Connect(d)
    ELSE Outcome(databases, connection_pool, connections, "", FALSE)

\* The model opens at most MaxConnections connections.
MayOpen(d) ==
    \/ Len(connections) < MaxConnections
    \/ PoolGet(ConnectPath(d)) # 0
    \/ ConnectPath(d) = None

\* Database(db_path)
NewDatabase(db_path) ==
    /\ Len(databases) < MaxDatabases
    /\ databases' = Append(databases,
           [db_path |-> db_path,
            c |-> IF db_path # None THEN PoolGet(db_path) ELSE 0])
    /\ last' = Call("Database", <<Len(databases'), db_path, connection_pool>>,
                    Returned([c |-> databases'[Len(databases')].c,
                              opened |-> FALSE]))
    /\ UNCHANGED <<connection_pool, connections, default_db>>
    /\ SchemaVarsUnchanged /\ ThreadVarsUnchanged

\* d.default_db = new
SetDefaultDb(d, new) ==
    /\ default_db' = new
    /\ last' = Call("Database.default_db", <<d, new>>, Returned(<<>>))
    /\ UNCHANGED <<connection_pool, connections, databases>>
    /\ SchemaVarsUnchanged /\ ThreadVarsUnchanged

\* d.connect()
DatabaseConnect(d) ==
    LET to == Connect(d) IN
    /\ MayOpen(d)
    /\ databases' = to.databases
    /\ connection_pool' = to.connection_pool
    /\ connections' = to.connections
    /\ last' = Call("Database.connect", <<d, ConnectPath(d), connection_pool>>,
                    [raised |-> to.raised,
                     value |-> [c |-> to.databases[d].c, opened |-> to.opened]])
    /\ UNCHANGED default_db
    /\ SchemaVarsUnchanged /\ ThreadVarsUnchanged

\* d.c
DatabaseC(d) ==
    LET to == GetC(d) IN
    /\ databases[d].c = 0 => MayOpen(d)
    /\ databases' = to.databases
    /\ connection_pool' = to.connection_pool
    /\ connections' = to.connections
    /\ last' = Call("Database.c", <<d, ConnectPath(d), connection_pool>>,
                    [raised |-> to.raised,
                     value |-> [c |-> to.databases[d].c, opened |-> to.opened]])
    /\ UNCHANGED default_db
    /\ SchemaVarsUnchanged /\ ThreadVarsUnchanged

\* d.close(): self.c.close(), then del connection_pool[db_path].
DatabaseClose(d) ==
    LET to == GetC(d)
        c == to.databases[d].c
        db_path == to.databases[d].db_path
    IN  /\ databases[d].c = 0 => MayOpen(d)
        /\ databases' = to.databases
        /\ IF to.raised # ""
           THEN /\ connection_pool' = to.connection_pool
                /\ connections' = to.connections
                /\ last' = Call("Database.close", <<d>>, Raised(to.raised))
           ELSE /\ connections' = [to.connections EXCEPT ![c] = FALSE]
                /\ IF db_path \in DOMAIN to.connection_pool
                   THEN /\ connection_pool' = DelItem(to.connection_pool, db_path)
                        /\ last' = Call("Database.close", <<d>>, Returned(<<>>))
                   ELSE /\ connection_pool' = to.connection_pool
                        /\ last' = Call("Database.close", <<d>>, Raised("KeyError"))
        /\ UNCHANGED default_db
        /\ SchemaVarsUnchanged /\ ThreadVarsUnchanged

InitPool ==
    /\ last = Idle
    /\ objects = <<>>
    /\ information_schema = <<>>
    /\ connection_pool = <<>>
    /\ connections = <<>>
    /\ databases = <<>>
    /\ default_db = None
    /\ NoThreads

NextPool ==
    \/ \E db_path \in Paths \cup {None} : NewDatabase(db_path)
    \/ \E d \in DOMAIN databases, new \in Paths : SetDefaultDb(d, new)
    \/ \E d \in DOMAIN databases : DatabaseConnect(d)
    \/ \E d \in DOMAIN databases : DatabaseC(d)
    \/ \E d \in DOMAIN databases : DatabaseClose(d)

SpecPool == InitPool /\ [][NextPool]_vars

\* C9: over any creations, connect() and close() calls of any Database
\* instances: a Database obtaining its connection for a path (at creation or
\* on connect) reuses the one pooled for the path when there is one; the
\* connection it reuses and hands out through c is open; a connection is
\* opened only when the pool holds none for the path.
C9_PooledConnectionReusedAndOpen ==
    /\ (/\ last.op \in {"Database", "Database.connect"}
        /\ last.result.raised = ""
        /\ last.args[2] \in DOMAIN last.args[3]) =>
           /\ last.result.value.c = last.args[3][last.args[2]]
           /\ connections[last.result.value.c]
    /\ (/\ last.op \in {"Database.connect", "Database.c"}
        /\ last.result.raised = ""
        /\ last.result.value.opened) =>
           last.args[2] \notin DOMAIN last.args[3]
    /\ (/\ last.op = "Database.c"
        /\ last.result.raised = "") =>
           connections[last.result.value.c]


\* ------------------------- RegisteredObject.__post_init__ under threads
\*
\* information_schema[type(self).__name__][self.name] = self, with no lock
\* around it, is three accesses to shared state: the lookup of the per-kind
\* dict in the defaultdict, on a miss the creation and storing of a new one
\* (defaultdict.__missing__), and the store of the object in the dict the
\* thread got.  The per-kind dicts are objects: kind_tables is their heap and
\* directory[kind] a reference into it.

Threads == 1..NumThreads

ThreadKeys == {<<"Column", "id">>, <<"Column", "name">>, <<"Pragma", "MAIN">>}

Local(pc, obj, tbl) == [pc |-> pc, obj |-> obj, tbl |-> tbl]

OtherVarsUnchanged ==
    UNCHANGED <<information_schema, connection_pool, connections, databases,
                default_db>>

\* A thread constructs an object: the dataclass __init__ sets its fields and
\* enters __post_init__.
Construct(t, kind, name) ==
    /\ threads[t].pc \in {"idle", "done"}
    /\ Len(objects) < MaxConstructions
    /\ objects' = Append(objects,
           IF kind = "Column" THEN Column(name, "", FALSE, TRUE, FALSE)
           ELSE Pragma(<< <<"foreign_keys", "1">> >>, name))
    /\ threads' = [threads EXCEPT ![t] = Local("lookup", Len(objects'), 0)]
    /\ last' = Call("construct", <<t, kind, name>>, Returned(Len(objects')))
    /\ UNCHANGED <<kind_tables, directory>>
    /\ OtherVarsUnchanged

\* information_schema[kind]: the per-kind dict when there is one.
LookupKind(t) ==
    LET kind == objects[threads[t].obj].kind IN
    /\ threads[t].pc = "lookup"
    /\ threads' = [threads EXCEPT ![t] =
           IF kind \in DOMAIN directory
           THEN Local("store", @.obj, directory[kind])
           ELSE Local("missing", @.obj, 0)]
    /\ last' = Call("lookup", <<t>>, Returned(kind \in DOMAIN directory))
    /\ UNCHANGED <<objects, kind_tables, directory>>
    /\ OtherVarsUnchanged

\* defaultdict.__missing__: a new dict is made and stored under the kind.
MissingKind(t) ==
    LET kind == objects[threads[t].obj].kind IN
    /\ threads[t].pc = "missing"
    /\ kind_tables' = Append(kind_tables, <<>>)
    /\ directory' = SetItem(directory, kind, Len(kind_tables'))
    /\ threads' = [threads EXCEPT ![t] = Local("store", @.obj, Len(kind_tables'))]
    /\ last' = Call("missing", <<t>>, Returned(Len(kind_tables')))
    /\ UNCHANGED objects
    /\ OtherVarsUnchanged

\* [self.name] = self, on the dict the thread holds.
StoreObject(t) ==
    LET self == threads[t].obj IN
    /\ threads[t].pc = "store"
    /\ kind_tables' = [kind_tables EXCEPT ![threads[t].tbl] =
                          SetItem(@, ObjectName(self), self)]
    /\ threads' = [threads EXCEPT ![t] = Local("done", @.obj, @.tbl)]
    /\ last' = Call("store", <<t>>, Returned(self))
    /\ UNCHANGED <<objects, directory>>
    /\ OtherVarsUnchanged

InitThreads ==
    /\ last = Idle
    /\ objects = <<>>
    /\ information_schema = <<>>
    /\ NoPool
    /\ threads = [t \in Threads |-> Local("idle", 0, 0)]
    /\ kind_tables = <<>>
    /\ directory = <<>>

NextThreads ==
    \E t \in Threads :
        \/ \E key \in ThreadKeys : Construct(t, key[1], key[2])
        \/ LookupKind(t)
        \/ MissingKind(t)
        \/ StoreObject(t)

SpecThreads == InitThreads /\ [][NextThreads]_vars

AllConstructed == \A t \in Threads : threads[t].pc \in {"idle", "done"}

\* C10: with schema objects constructed from several threads, each insertion
\* into the directory runs under mutual exclusion, so that once every
\* construction has finished every constructed object whose (kind, name) key
\* no other object has is in the directory: no registration is lost.
C10_NoRegistrationLost ==
    AllConstructed =>
        \A i \in DOMAIN objects :
            (\A j \in DOMAIN objects :
                (objects[j].kind = objects[i].kind
                    /\ ObjectName(j) = ObjectName(i)) => j = i)
            => /\ objects[i].kind \in DOMAIN directory
               /\ ObjectName(i) \in DOMAIN kind_tables[directory[objects[i].kind]]
               /\ kind_tables[directory[objects[i].kind]][ObjectName(i)] = i

====
